---- MODULE Spec2Model ----
(***************************************************************************)
(* A model of ncbi_chromosome_exporter.py: the paginated fetch, the record  *)
(* classifier and mapper, the chromosome sort key, the column projection,  *)
(* the CSV writer and the two drivers (batch and single assembly).         *)
(*                                                                         *)
(* A Python str is a sequence of one-character strings.  A JSON / Python   *)
(* value is a record [t, n, s]: t is its type ("str", "int", "float",      *)
(* "null", "absent", "list"), n its number, s its characters.              *)
(***************************************************************************)
EXTENDS Integers, Sequences, FiniteSets, TLC

VARIABLES
    server,            \* what the remote API answers: [pages, fail_at]
    fetch,             \* the locals of fetch_all_sequence_reports
    include_unplaced,  \* --include-unplaced
    exclude_columns,   \* --exclude-col, a set of column names
    file0,             \* the output file before the run
    result,            \* what fetch_chromosome_table did
    input_lines,       \* the lines of the --file list
    idx,               \* how many assembly IDs the batch loop has processed
    file,              \* the output file: [exists, lines]
    log,               \* one entry per processed assembly
    pc,                \* position of the driver
    labels,            \* the Chromosome labels of the rows to sort
    sorted             \* the result of table_data.sort(key=sort_key)

vars == <<server, fetch, include_unplaced, exclude_columns, file0, result,
          input_lines, idx, file, log, pc, labels, sorted>>

\* The value of a variable a specification does not use.
Idle == "idle"

(***************************************************************************)
(* Values                                                                  *)
(***************************************************************************)
JStr(s) == [t |-> "str", n |-> 0, s |-> s]
JInt(k) == [t |-> "int", n |-> k, s |-> <<>>]
JFloat(tenths) == [t |-> "float", n |-> tenths, s |-> <<>>]
JNull == [t |-> "null", n |-> 0, s |-> <<>>]
JList == [t |-> "list", n |-> 0, s |-> <<>>]
JAbsent == [t |-> "absent", n |-> 0, s |-> <<>>]

\* dict.get(key, default): the default only when the key is absent.
Get(v, default) == IF v.t = "absent" THEN default ELSE v

\* Python truthiness of a value.
Truthy(v) ==
    CASE v.t = "str" -> v.s # <<>>
      [] v.t \in {"int", "float"} -> v.n # 0
      [] OTHER -> FALSE

(***************************************************************************)
(* Characters and strings                                                  *)
(***************************************************************************)
Digits == <<"0", "1", "2", "3", "4", "5", "6", "7", "8", "9">>
LowerChars == <<"a", "b", "c", "d", "e", "f", "g", "h", "i", "j", "k", "l", "m",
                "n", "o", "p", "q", "r", "s", "t", "u", "v", "w", "x", "y", "z">>
UpperChars == <<"A", "B", "C", "D", "E", "F", "G", "H", "I", "J", "K", "L", "M",
                "N", "O", "P", "Q", "R", "S", "T", "U", "V", "W", "X", "Y", "Z">>
\* The characters of the model in code point order.
CharOrder == <<" ", "/">> \o Digits \o UpperChars \o LowerChars

IndexOf(seq, c) == CHOOSE i \in 1..Len(seq) : seq[i] = c
IsDigit(c) == \E i \in 1..Len(Digits) : Digits[i] = c
IsUpper(c) == \E i \in 1..Len(UpperChars) : UpperChars[i] = c
IsLower(c) == \E i \in 1..Len(LowerChars) : LowerChars[i] = c
DigitVal(c) == IndexOf(Digits, c) - 1
Ord(c) == IndexOf(CharOrder, c)

\* str.upper()
UpperChar(c) == IF IsLower(c) THEN UpperChars[IndexOf(LowerChars, c)] ELSE c
Upper(s) == [i \in 1..Len(s) |-> UpperChar(s[i])]

StartsWith(s, p) == Len(s) >= Len(p) /\ SubSeq(s, 1, Len(p)) = p

\* str.replace(old, ""): every non-overlapping occurrence, scanning from the left.
RECURSIVE Remove(_, _)
Remove(s, old) ==
    IF s = <<>> THEN <<>>
    ELSE IF StartsWith(s, old) THEN Remove(SubSeq(s, Len(old) + 1, Len(s)), old)
    ELSE <<Head(s)>> \o Remove(Tail(s), old)

\* str < str: by code point, a proper prefix first.
RECURSIVE StrLess(_, _)
StrLess(a, b) ==
    IF b = <<>> THEN FALSE
    ELSE IF a = <<>> THEN TRUE
    ELSE IF Head(a) # Head(b) THEN Ord(Head(a)) < Ord(Head(b))
    ELSE StrLess(Tail(a), Tail(b))

AllDigits(s) == s # <<>> /\ \A i \in 1..Len(s) : IsDigit(s[i])

\* The value of a string of decimal digits.
RECURSIVE DecimalValue(_)
DecimalValue(s) ==
    IF s = <<>> THEN 0
    ELSE 10 * DecimalValue(SubSeq(s, 1, Len(s) - 1)) + DigitVal(s[Len(s)])

\* int(s) succeeds (no ValueError).  The labels of the model hold letters,
\* digits, "/" and no sign, blank or underscore.
IntParses(s) == AllDigits(s)

\* The length of the longest run of upper case letters s starts with.
RECURSIVE UpperRun(_)
UpperRun(s) == IF s # <<>> /\ IsUpper(Head(s)) THEN 1 + UpperRun(Tail(s)) ELSE 0

\* re.match(r'^([A-Z]+)(\d+)$', s)
ReMatches(s) == UpperRun(s) >= 1 /\ AllDigits(SubSeq(s, UpperRun(s) + 1, Len(s)))
RePrefix(s) == SubSeq(s, 1, UpperRun(s))
ReNum(s) == SubSeq(s, UpperRun(s) + 1, Len(s))

(***************************************************************************)
(* sort_key                                                                *)
(***************************************************************************)
chr == <<"c", "h", "r">>
Chr == <<"C", "h", "r">>

\* item['Chromosome'].replace("chr", "").replace("Chr", "").upper()
Normalize(label) == Upper(Remove(Remove(label, chr), Chr))

RankX == 1000
RankY == 1001
RankMT == 1002

IsSpecial(s) ==
    s \in {<<"X">>, <<"Y">>, <<"M", "T">>, <<"M">>, <<"M", "I", "T", "O">>,
           <<"M", "I", "T", "O", "C", "H", "O", "N", "D", "R", "I", "O", "N">>}
\* X and Y given each other's rank.
special_swapped(s) ==
    CASE s = <<"X">> -> RankY
      [] s = <<"Y">> -> RankX
      [] OTHER -> RankMT
special(s) ==
    CASE s = <<"X">> -> RankX
      [] s = <<"Y">> -> RankY
      [] OTHER -> RankMT

\* A key is the tuple sort_key returns.
Key(tier, a, b) == <<JInt(tier), a, b>>

\* The letters+digits key put in tier 0, beside the numeric keys.
LabelKey_tier0(label) ==
    LET chr_name == Normalize(label) IN
    IF IsSpecial(chr_name) THEN Key(0, JInt(special(chr_name)), JStr(<<>>))
    ELSE IF IntParses(chr_name) THEN Key(0, JInt(DecimalValue(chr_name)), JStr(<<>>))
    ELSE IF ReMatches(chr_name)
         THEN Key(0, JStr(RePrefix(chr_name)), JInt(DecimalValue(ReNum(chr_name))))
    ELSE Key(2, JStr(chr_name), JInt(0))

\* sort_key of a label that is a str.
LabelKey(label) ==
    LET chr_name == Normalize(label) IN
    IF IsSpecial(chr_name) THEN Key(0, JInt(special(chr_name)), JStr(<<>>))
    ELSE IF IntParses(chr_name) THEN Key(0, JInt(DecimalValue(chr_name)), JStr(<<>>))
    ELSE IF ReMatches(chr_name)
         THEN Key(1, JStr(RePrefix(chr_name)), JInt(DecimalValue(ReNum(chr_name))))
    ELSE Key(2, JStr(chr_name), JInt(0))

\* sort_key(item): [err, key].  item['Chromosome'] raises KeyError when the
\* column was projected away, and .replace raises AttributeError when the
\* label is no str.
NoKey == Key(0, JInt(0), JStr(<<>>))
sort_key(item) ==
    IF "Chromosome" \notin DOMAIN item THEN [err |-> "KeyError", key |-> NoKey]
    ELSE IF item["Chromosome"].t # "str" THEN [err |-> "AttributeError", key |-> NoKey]
    ELSE [err |-> "none", key |-> LabelKey(item["Chromosome"].s)]

\* a < b, a == b for two tuple components: "TypeError" on str against int.
ElemCmp(a, b) ==
    IF a.t # b.t THEN "TypeError"
    ELSE IF a.t = "int" THEN (IF a.n < b.n THEN "lt" ELSE IF a.n = b.n THEN "eq" ELSE "gt")
    ELSE (IF StrLess(a.s, b.s) THEN "lt" ELSE IF a.s = b.s THEN "eq" ELSE "gt")

\* Tuple comparison: the first component that differs decides.
RECURSIVE KeyCmpFrom(_, _, _)
KeyCmpFrom(k1, k2, i) ==
    IF i > Len(k1) THEN "eq"
    ELSE IF ElemCmp(k1[i], k2[i]) = "eq" THEN KeyCmpFrom(k1, k2, i + 1)
    ELSE ElemCmp(k1[i], k2[i])
KeyCmp(k1, k2) == KeyCmpFrom(k1, k2, 1)

\* The place of every row in the sorted list: the number of rows that go
\* before it, counting a row of equal key only when it stands before it.
Places(keys) ==
    [i \in 1..Len(keys) |->
        1 + Cardinality({j \in 1..Len(keys) :
                \/ KeyCmp(keys[j], keys[i]) = "lt"
                \/ (KeyCmp(keys[j], keys[i]) = "eq" /\ j < i)})]
Arrange(rows, place) ==
    [r \in 1..Len(rows) |-> rows[CHOOSE i \in 1..Len(rows) : place[i] = r]]
KeysOf(rows) == [i \in 1..Len(rows) |-> sort_key(rows[i]).key]

\* The rows in ascending key order, rows of equal keys in their given order
\* (list.sort is stable).  The keys and the places are computed once.
StableSort(rows) ==
    CHOOSE out \in {Arrange(rows, place) :
                        place \in {Places(keys) : keys \in {KeysOf(rows)}}} : TRUE

\* The first exception sort_key raises over the rows, "none" if none: list.sort
\* computes the key of every row, in order, before it compares any.
RECURSIVE FirstKeyError(_)
FirstKeyError(rows) ==
    IF rows = <<>> THEN "none"
    ELSE IF sort_key(Head(rows)).err # "none" THEN sort_key(Head(rows)).err
    ELSE FirstKeyError(Tail(rows))

\* table_data.sort(key=sort_key): [err, rows].  The sort is stable; comparing
\* two keys of different component types raises TypeError.
Incomparable(keys) ==
    \E i, j \in 1..Len(keys) : KeyCmp(keys[i], keys[j]) = "TypeError"
SortRows(rows) ==
    IF FirstKeyError(rows) # "none" THEN [err |-> FirstKeyError(rows), rows |-> rows]
    ELSE IF \E keys \in {KeysOf(rows)} : Incomparable(keys)
         THEN [err |-> "TypeError", rows |-> rows]
    ELSE [err |-> "none", rows |-> StableSort(rows)]

(***************************************************************************)
(* fetch_all_sequence_reports                                              *)
(*                                                                         *)
(* The server answers the k-th request with pages[k]; the request fails    *)
(* (timeout, connection error, HTTP status) when k = fail_at or when no    *)
(* such page exists.  A page is [reports, has_reports, next_page_token].   *)
(***************************************************************************)
RequestFails(srv, k) == k = srv.fail_at \/ k > Len(srv.pages)

FetchStart == [reports |-> <<>>, page_token |-> JNull, requests |-> <<>>, state |-> "loop"]

\* The loop body with its last two statements first: the loop is left before
\* the page's reports are added.
FetchIter_break_first(st, srv) ==
    LET k == Len(st.requests) + 1
        param == IF Truthy(st.page_token) THEN st.page_token ELSE JAbsent
    IN  IF RequestFails(srv, k)
        THEN [st EXCEPT !.requests = Append(@, param), !.state = "returned"]
        ELSE LET data == srv.pages[k]
                 token == Get(data.next_page_token, JNull)
             IN  [reports |-> IF ~Truthy(token) THEN st.reports
                              ELSE st.reports \o (IF data.has_reports THEN data.reports ELSE <<>>),
                  page_token |-> token,
                  requests |-> Append(st.requests, param),
                  state |-> IF ~Truthy(token) THEN "returned" ELSE "loop"]

\* One pass of the while loop.  requests records the page_token parameter of
\* every GET sent (absent when params is empty).
FetchIter(st, srv) ==
    LET k == Len(st.requests) + 1
        param == IF Truthy(st.page_token) THEN st.page_token ELSE JAbsent
    IN  IF RequestFails(srv, k)
        THEN [st EXCEPT !.requests = Append(@, param), !.state = "returned"]
        ELSE LET data == srv.pages[k]
                 token == Get(data.next_page_token, JNull)
             IN  [reports |-> st.reports \o (IF data.has_reports THEN data.reports ELSE <<>>),
                  page_token |-> token,
                  requests |-> Append(st.requests, param),
                  state |-> IF ~Truthy(token) THEN "returned" ELSE "loop"]

\* The loop run to its return.
RECURSIVE FetchRun(_, _)
FetchRun(st, srv) == IF st.state = "returned" THEN st ELSE FetchRun(FetchIter(st, srv), srv)

fetch_all_sequence_reports(srv) == FetchRun(FetchStart, srv).reports

(***************************************************************************)
(* fetch_chromosome_table                                                  *)
(*                                                                         *)
(* A sequence report is [mapping, loc, role, chr_name, assigned_molecule,  *)
(* genbank_accession, refseq_accession, length, gc_percent]: mapping is    *)
(* FALSE for a JSON value that is no object; loc and role are strings,     *)
(* AbsentField for a missing key; the others are values.  A float is held  *)
(* in hundredths.                                                          *)
(***************************************************************************)
AbsentField == "<absent>"
GetField(v, default) == IF v = AbsentField THEN default ELSE v

Columns == <<"GenomeID", "Taxon", "Chromosome", "GenBank", "RefSeq", "Size (bp)",
             "GC content (%)">>
ColumnSet == {Columns[i] : i \in 1..Len(Columns)}

Unknown == <<"U", "n", "k", "n", "o", "w", "n">>
N_A == <<"N", "/", "A">>
n_a == <<"n", "/", "a">>
Un == <<"U", "n">>

\* round(x, 1) of a float in hundredths, off the ties.
Round1(h) == ((h + 5) \div 10) * 10

\* The inclusion test with include_unplaced left out of it.
PassesTypeFilter_no_flag(seq, incl) ==
    LET is_chromosome == GetField(seq.loc, "") = "Chromosome"
        is_assembled == GetField(seq.role, "") = "assembled-molecule"
    IN  ~(~is_chromosome /\ ~is_assembled)

\* The inclusion test of lines 84-87.
PassesTypeFilter(seq, incl) ==
    LET is_chromosome == GetField(seq.loc, "") = "Chromosome"
        is_assembled == GetField(seq.role, "") = "assembled-molecule"
    IN  ~(~is_chromosome /\ ~(incl /\ is_assembled))

\* seq.get('chr_name', seq.get('assigned_molecule', 'N/A'))
ResolveLabel(seq) == Get(seq.chr_name, Get(seq.assigned_molecule, JStr(N_A)))

\* The test of line 92.
IsUnplacedLabel(seq, incl) == ~incl /\ ResolveLabel(seq) = JStr(Un)

\* The value of 'GC content (%)', and whether round() raises TypeError.
GcRaises(seq) == Truthy(Get(seq.gc_percent, JNull)) /\ seq.gc_percent.t \notin {"int", "float"}
GcValue(seq) ==
    IF ~Truthy(Get(seq.gc_percent, JNull)) THEN JNull
    ELSE IF seq.gc_percent.t = "float" THEN JFloat(Round1(seq.gc_percent.n))
    ELSE seq.gc_percent

\* chrom_data of lines 95-103.
ChromData(seq, genome_id, organism_name) ==
    [c \in ColumnSet |->
        CASE c = "GenomeID" -> JStr(genome_id)
          [] c = "Taxon" -> JStr(organism_name)
          [] c = "Chromosome" -> ResolveLabel(seq)
          [] c = "GenBank" -> Get(seq.genbank_accession, JStr(N_A))
          [] c = "RefSeq" -> Get(seq.refseq_accession, JStr(n_a))
          [] c = "Size (bp)" -> Get(seq.length, JInt(0))
          [] OTHER -> GcValue(seq)]

\* Lines 105-106: the projection.
Project(chrom_data, excl) == [c \in (DOMAIN chrom_data) \ excl |-> chrom_data[c]]

\* The loop body of lines 80-108 for one report: [kind, row], kind one of
\* "skip", "row", or the exception raised.
NoRow == [c \in {} |-> JNull]
MapRecord(seq, genome_id, organism_name, incl, excl) ==
    IF ~seq.mapping THEN [kind |-> "AttributeError", row |-> NoRow]
    ELSE IF ~PassesTypeFilter(seq, incl) THEN [kind |-> "skip", row |-> NoRow]
    ELSE IF IsUnplacedLabel(seq, incl) THEN [kind |-> "skip", row |-> NoRow]
    ELSE IF GcRaises(seq) THEN [kind |-> "TypeError", row |-> NoRow]
    ELSE [kind |-> "row", row |-> Project(ChromData(seq, genome_id, organism_name), excl)]

\* The for loop of lines 80-108: [err, rows]; the first exception ends it.
RECURSIVE MapLoop(_, _, _, _, _, _)
MapLoop(reports, table_data, genome_id, organism_name, incl, excl) ==
    IF reports = <<>> THEN [err |-> "none", rows |-> table_data]
    ELSE LET m == MapRecord(Head(reports), genome_id, organism_name, incl, excl) IN
         IF m.kind \in {"AttributeError", "TypeError"} THEN [err |-> m.kind, rows |-> table_data]
         ELSE MapLoop(Tail(reports),
                      IF m.kind = "row" THEN Append(table_data, m.row) ELSE table_data,
                      genome_id, organism_name, incl, excl)

\* Lines 79-130: the loop, then the sort.
MapAndSort(reports, genome_id, organism_name, incl, excl) ==
    LET mapped == MapLoop(reports, <<>>, genome_id, organism_name, incl, excl) IN
    IF mapped.err # "none" THEN mapped ELSE SortRows(mapped.rows)

\* The except clause of line 132.
Caught == {"KeyError", "IndexError", "TypeError"}

\* Lines 64-75: the organism name, "Unknown" when the lookup fails or the
\* report names none.
OrganismName(srv) ==
    IF srv.organism.ok /\ srv.organism.name.t # "absent" THEN srv.organism.name.s ELSE Unknown

\* fetch_chromosome_table: [status, rows, organism_name, err].  status is
\* "returned" (rows, organism_name is the tuple returned) or "raised" (err
\* left the function).
fetch_chromosome_table(genome_id, incl, excl, srv) ==
    LET reports == fetch_all_sequence_reports(srv) IN
    IF reports = <<>>
    THEN [status |-> "returned", rows |-> <<>>, organism_name |-> Unknown, err |-> "none"]
    ELSE LET done == MapAndSort(reports, genome_id, OrganismName(srv), incl, excl) IN
         IF done.err = "none"
         THEN [status |-> "returned", rows |-> done.rows,
               organism_name |-> OrganismName(srv), err |-> "none"]
         ELSE IF done.err \in Caught
         THEN [status |-> "returned", rows |-> <<>>,
               organism_name |-> OrganismName(srv), err |-> done.err]
         ELSE [status |-> "raised", rows |-> <<>>,
               organism_name |-> OrganismName(srv), err |-> done.err]

(***************************************************************************)
(* export_to_csv                                                           *)
(*                                                                         *)
(* The file is [exists, lines]; a line is the list of its fields, a field  *)
(* the characters csv writes for it.                                       *)
(***************************************************************************)
ColumnText(c) ==
    CASE c = "GenomeID" -> <<"G", "e", "n", "o", "m", "e", "I", "D">>
      [] c = "Taxon" -> <<"T", "a", "x", "o", "n">>
      [] c = "Chromosome" -> <<"C", "h", "r", "o", "m", "o", "s", "o", "m", "e">>
      [] c = "GenBank" -> <<"G", "e", "n", "B", "a", "n", "k">>
      [] c = "RefSeq" -> <<"R", "e", "f", "S", "e", "q">>
      [] c = "Size (bp)" -> <<"S", "i", "z", "e", " ", "(", "b", "p", ")">>
      [] OTHER -> <<"G", "C", " ", "c", "o", "n", "t", "e", "n", "t", " ", "(", "%", ")">>

\* str(n) of an int n >= 0.
RECURSIVE IntText(_)
IntText(k) == IF k < 10 THEN <<Digits[k + 1]>> ELSE IntText(k \div 10) \o <<Digits[(k % 10) + 1]>>

\* What csv writes for a value: None as the empty field, a float rounded to
\* one decimal with that decimal.
Text(v) ==
    CASE v.t = "str" -> v.s
      [] v.t = "int" -> IntText(v.n)
      [] v.t = "float" -> IntText(v.n \div 100) \o <<".">> \o <<Digits[((v.n % 100) \div 10) + 1]>>
      [] OTHER -> <<>>

\* list(table_data[0].keys()): the keys in insertion order.
HeadersOf(row) == SelectSeq(Columns, LAMBDA c : c \in DOMAIN row)

HeaderLine(headers) == [i \in 1..Len(headers) |-> ColumnText(headers[i])]
RowLine(headers, row) == [i \in 1..Len(headers) |-> Text(row[headers[i]])]
RowLines(headers, table_data) == [i \in 1..Len(table_data) |-> RowLine(headers, table_data[i])]

\* open(output_file, 'w'): created or truncated.
Truncated == [exists |-> TRUE, lines |-> <<>>]

\* export_to_csv with the header written on every call.
export_to_csv_always_header(table_data, f) ==
    IF table_data = <<>> THEN f
    ELSE [exists |-> TRUE,
          lines |-> f.lines \o <<HeaderLine(HeadersOf(table_data[1]))>>
                      \o RowLines(HeadersOf(table_data[1]), table_data)]

\* export_to_csv: the file after the call.  tell() is 0 in append mode when
\* the file is empty.
export_to_csv(table_data, f) ==
    IF table_data = <<>> THEN f
    ELSE LET headers == HeadersOf(table_data[1])
             file_exists == f.exists
         IN  [exists |-> TRUE,
              lines |-> f.lines
                          \o (IF ~file_exists \/ Len(f.lines) = 0
                              THEN <<HeaderLine(headers)>> ELSE <<>>)
                          \o RowLines(headers, table_data)]

(***************************************************************************)
(* process_genome_list and main                                            *)
(***************************************************************************)
IsSpace(c) == c = " "
RECURSIVE LStrip(_)
LStrip(s) == IF s # <<>> /\ IsSpace(Head(s)) THEN LStrip(Tail(s)) ELSE s
RECURSIVE RStrip(_)
RStrip(s) ==
    IF s # <<>> /\ IsSpace(s[Len(s)]) THEN RStrip(SubSeq(s, 1, Len(s) - 1)) ELSE s
\* str.strip()
Strip(s) == RStrip(LStrip(s))

\* [line.strip() for line in f if line.strip()]
RECURSIVE GenomeIds(_)
GenomeIds(lines) ==
    IF lines = <<>> THEN <<>>
    ELSE IF Strip(Head(lines)) # <<>> THEN <<Strip(Head(lines))>> \o GenomeIds(Tail(lines))
    ELSE GenomeIds(Tail(lines))

\* Lines 260-264 of main without the truncation.
SingleModeFile_append(table_data, f) ==
    IF table_data # <<>> THEN export_to_csv(table_data, f) ELSE f

\* Lines 260-267 of main: the file after a single-assembly run that returned
\* table_data.
SingleModeFile(table_data, f) ==
    IF table_data # <<>> THEN export_to_csv(table_data, Truncated) ELSE f

(***************************************************************************)
(* Bounds and input domains                                                *)
(***************************************************************************)
MaxLabelLen == 4
MaxRows == 3

\* The characters the labels of SpecKey are built from.
KeyAlphabet == {"c", "h", "r", "C", "X", "M", "1", "0"}

RECURSIVE StringsUpTo(_, _)
StringsUpTo(alphabet, n) ==
    IF n = 0 THEN {<<>>}
    ELSE LET shorter == StringsUpTo(alphabet, n - 1) IN
         shorter \cup {<<c>> \o s : c \in alphabet, s \in {t \in shorter : Len(t) = n - 1}}

RECURSIVE ListsUpTo(_, _)
ListsUpTo(S, n) ==
    IF n = 0 THEN {<<>>}
    ELSE LET shorter == ListsUpTo(S, n - 1) IN
         shorter \cup {<<x>> \o l : x \in S, l \in {t \in shorter : Len(t) = n - 1}}

L_chr1 == <<"c", "h", "r", "1">>
L_chr2 == <<"c", "h", "r", "2">>
L_chr10 == <<"c", "h", "r", "1", "0">>
L_chrX == <<"c", "h", "r", "X">>
L_chrY == <<"c", "h", "r", "Y">>
L_chrMT == <<"c", "h", "r", "M", "T">>
L_scaffold1 == <<"s", "c", "a", "f", "f", "o", "l", "d", "1">>
L_KI27 == <<"K", "I", "2", "7">>
L_KI3 == <<"K", "I", "3">>
L_AB1 == <<"A", "B", "1">>
L_1000 == <<"1", "0", "0", "0">>
L_M == <<"M">>
L_Un == <<"U", "n">>
L_1chr2 == <<"1", "c", "h", "r", "2">>
L_NA == <<"N", "/", "A">>

\* The labels the rows of SpecSort carry.
LabelPool ==
    {L_chr1, L_chr10, L_1000, L_chrX, L_chrY, L_M, L_KI3, L_KI27, L_AB1, L_Un, L_NA,
     L_1chr2}

Example1 == <<L_chr2, L_chrX, L_chr10, L_scaffold1, L_chrY, L_chrMT, L_chr1>>
Expected1 == <<L_chr1, L_chr2, L_chr10, L_chrX, L_chrY, L_chrMT, L_scaffold1>>
Example2 == <<L_KI27, L_KI3, L_AB1>>
Expected2 == <<L_AB1, L_KI3, L_KI27>>

(***************************************************************************)
(* SpecKey: sort_key applied to one label over KeyAlphabet.                *)
(* SpecSort: table_data.sort(key=sort_key) applied to a list of rows.      *)
(***************************************************************************)
\* The row the mapping loop builds for the i-th kept record, as far as the
\* sort reads it: its label, and its position in "Size (bp)".
SortRow(label, i) ==
    [c \in {"Chromosome", "Size (bp)"} |->
        IF c = "Chromosome" THEN JStr(label) ELSE JInt(i)]
SortTable(ls) == [i \in 1..Len(ls) |-> SortRow(ls[i], i)]
LabelsOf(rows) == [i \in 1..Len(rows) |-> rows[i]["Chromosome"].s]

NoSort == [err |-> "none", rows |-> <<>>]
NoResult == [status |-> Idle, rows |-> <<>>, organism_name |-> <<>>, err |-> "none"]
NoServer == [pages |-> <<>>, fail_at |-> 0, organism |-> [ok |-> FALSE, name |-> JAbsent]]
NoFetch == [reports |-> <<>>, page_token |-> JNull, requests |-> <<>>, state |-> Idle]
NoFile == [exists |-> FALSE, lines |-> <<>>]

OnlyLabels ==
    /\ server = NoServer /\ fetch = NoFetch
    /\ include_unplaced = FALSE /\ exclude_columns = {}
    /\ file0 = NoFile /\ input_lines = <<>> /\ idx = 0
    /\ file = NoFile /\ log = <<>>

InitKey ==
    /\ OnlyLabels
    /\ labels \in {<<l>> : l \in StringsUpTo(KeyAlphabet, MaxLabelLen)}
    /\ result = NoResult /\ sorted = NoSort
    /\ pc = "start"

CallSortKey ==
    /\ pc = "start"
    /\ result' = [status |-> "keyed",
                   err |-> sort_key(SortRow(labels[1], 1)).err,
                   key |-> sort_key(SortRow(labels[1], 1)).key]
    /\ pc' = "keyed"
    /\ UNCHANGED <<server, fetch, include_unplaced, exclude_columns, file0,
                   input_lines, idx, file, log, labels, sorted>>

NextKey == CallSortKey
SpecKey == InitKey /\ [][NextKey]_vars

InitSort ==
    /\ OnlyLabels
    /\ labels \in (ListsUpTo(LabelPool, MaxRows) \cup {Example1, Example2})
    /\ result = NoResult /\ sorted = NoSort
    /\ pc = "start"

CallSort ==
    /\ pc = "start"
    /\ sorted' = SortRows(SortTable(labels))
    /\ pc' = "sorted"
    /\ UNCHANGED <<server, fetch, include_unplaced, exclude_columns, file0, result,
                   input_lines, idx, file, log, labels>>

NextSort == CallSort
SpecSort == InitSort /\ [][NextSort]_vars

(***************************************************************************)
(* Sequence reports, pages and servers of the model                        *)
(***************************************************************************)
MaxPages == 3
MaxReports == 2
MaxLines == 2

Report(loc, role, chr_name, assigned_molecule, length, gc_percent) ==
    [mapping |-> TRUE, loc |-> loc, role |-> role, chr_name |-> chr_name,
     assigned_molecule |-> assigned_molecule,
     genbank_accession |-> JStr(<<"C", "M">>), refseq_accession |-> JAbsent,
     length |-> length, gc_percent |-> gc_percent]

\* A chromosome; chr_name is preferred to assigned_molecule.
R_chr10 == Report("Chromosome", "assembled-molecule", JStr(L_chr10), JStr(L_Un),
                  JInt(135), [t |-> "float", n |-> 4137, s |-> <<>>])
\* A chromosome labelled "Un".
R_chrUn == Report("Chromosome", "assembled-molecule", JStr(L_Un), JAbsent, JInt(7), JInt(0))
\* A chromosome that names only its assigned molecule.
R_X == Report("Chromosome", "unplaced-scaffold", JAbsent, JStr(L_chrX), JInt(156), JInt(39))
\* An assembled molecule that is no chromosome.
R_asm1 == Report(AbsentField, "assembled-molecule", JAbsent, JStr(L_chr1), JAbsent, JAbsent)
R_asmUn == Report("Scaffold", "assembled-molecule", JAbsent, JStr(L_Un), JInt(3), JAbsent)
\* Neither a chromosome nor an assembled molecule.
R_scaffold == Report(AbsentField, "unplaced-scaffold", JStr(L_chrY), JAbsent, JInt(2), JAbsent)
\* A chromosome with no name at all.
R_bare == Report("Chromosome", AbsentField, JAbsent, JAbsent, JAbsent, JNull)
\* Malformed: a report that is a JSON list, a null label, a GC percent that is
\* a string (on a chromosome, and on a scaffold the filter drops).
R_list == [Report(AbsentField, AbsentField, JAbsent, JAbsent, JAbsent, JAbsent)
             EXCEPT !.mapping = FALSE]
R_null_label == Report("Chromosome", "assembled-molecule", JNull, JStr(L_chr1), JInt(9), JAbsent)
R_bad_gc == Report("Chromosome", "assembled-molecule", JStr(L_chr1), JAbsent, JInt(248),
                   JStr(<<"4", "1">>))
R_scaffold_bad_gc == Report(AbsentField, "unplaced-scaffold", JStr(L_KI3), JAbsent, JInt(1),
                            JStr(<<"4", "1">>))

WellFormed == {R_chr10, R_chrUn, R_X, R_asm1, R_asmUn, R_scaffold, R_bare}
Malformed == {R_list, R_null_label, R_bad_gc, R_scaffold_bad_gc}
ReportPool == WellFormed \cup Malformed

Page(reports, token) == [reports |-> reports, has_reports |-> TRUE, next_page_token |-> token]
\* A page with no "reports" key.
PageNoReports(token) == [reports |-> <<>>, has_reports |-> FALSE, next_page_token |-> token]
T1 == JStr(<<"t", "1">>)
T2 == JStr(<<"t", "2">>)

Found(name) == [ok |-> TRUE, name |-> JStr(name)]
NoName == [ok |-> TRUE, name |-> JAbsent]
LookupFails == [ok |-> FALSE, name |-> JAbsent]
Hs == <<"H", "s">>
Server(pages, fail_at, organism) ==
    [pages |-> pages, fail_at |-> fail_at, organism |-> organism]

G1 == <<"G", "1">>
G2 == <<"G", "2">>

\* The exclusion sets of the model: none, each column alone, two pairs, all.
ExcludeSets ==
    {{}} \cup {{c} : c \in ColumnSet}
         \cup {{"RefSeq", "GC content (%)"}, {"Taxon", "Chromosome"}, ColumnSet}

\* The output file before the run: missing, empty, or holding two old lines.
OldLines == <<<<<<"o", "l", "d">>>>, <<<<"1">>, <<"2">>>>>>
PriorFiles == {[exists |-> FALSE, lines |-> <<>>], [exists |-> TRUE, lines |-> <<>>],
               [exists |-> TRUE, lines |-> OldLines]}

(***************************************************************************)
(* SpecFetch: the loop of fetch_all_sequence_reports, pass by pass.        *)
(***************************************************************************)
FetchPages ==
    {Page(r, t) : r \in {<<>>, <<R_X>>, <<R_chr10, R_asm1>>}, t \in {JAbsent, T1, T2}}
        \cup {PageNoReports(T1)}

Unused ==
    /\ include_unplaced = FALSE /\ exclude_columns = {}
    /\ file0 = NoFile /\ result = NoResult /\ input_lines = <<>> /\ idx = 0
    /\ file = NoFile /\ log = <<>> /\ labels = <<>> /\ sorted = NoSort

InitFetch ==
    /\ Unused
    /\ server \in {Server(pages, k, LookupFails) :
                      pages \in ListsUpTo(FetchPages, MaxPages), k \in 0..MaxPages}
    /\ fetch = FetchStart
    /\ pc = "fetching"

FetchPass ==
    /\ pc = "fetching"
    /\ fetch.state = "loop"
    /\ fetch' = FetchIter(fetch, server)
    /\ UNCHANGED <<server, include_unplaced, exclude_columns, file0, result, input_lines,
                   idx, file, log, pc, labels, sorted>>

NextFetch == FetchPass
SpecFetch == InitFetch /\ [][NextFetch]_vars

(***************************************************************************)
(* SpecMap: fetch_chromosome_table on one page of reports.                 *)
(***************************************************************************)
InitMap ==
    /\ fetch = NoFetch /\ file0 = NoFile /\ input_lines = <<>> /\ idx = 0
    /\ file = NoFile /\ log = <<>> /\ labels = <<>> /\ sorted = NoSort
    /\ include_unplaced \in BOOLEAN
    /\ exclude_columns \in ExcludeSets
    /\ server \in {Server(<<Page(reports, JAbsent)>>, 0, Found(Hs)) :
                      reports \in ListsUpTo(ReportPool, MaxReports)}
    /\ result = NoResult
    /\ pc = "start"

CallFetchChromosomeTable ==
    /\ pc = "start"
    /\ result' = fetch_chromosome_table(G1, include_unplaced, exclude_columns, server)
    /\ pc' = "called"
    /\ UNCHANGED <<server, fetch, include_unplaced, exclude_columns, file0, input_lines,
                   idx, file, log, labels, sorted>>

NextMap == CallFetchChromosomeTable
SpecMap == InitMap /\ [][NextMap]_vars

(***************************************************************************)
(* SpecBatch: process_genome_list.  SpecSingle: main with one genome_id.   *)
(***************************************************************************)
\* What the API may answer for one assembly.
BatchServers ==
    {Server(<<Page(<<R_X, R_chr10>>, JAbsent)>>, 0, Found(Hs)),
     Server(<<Page(<<R_X>>, T1), Page(<<R_bare>>, JAbsent)>>, 0, NoName),
     Server(<<Page(<<R_chr10>>, T1), Page(<<R_X>>, JAbsent)>>, 2, Found(Hs)),
     Server(<<Page(<<R_chr10>>, JAbsent)>>, 1, Found(Hs)),
     Server(<<Page(<<R_scaffold>>, JAbsent)>>, 0, LookupFails),
     Server(<<Page(<<R_chr10, R_bad_gc>>, JAbsent)>>, 0, Found(Hs)),
     Server(<<Page(<<R_chr10, R_list>>, JAbsent)>>, 0, Found(Hs)),
     Server(<<Page(<<R_null_label>>, JAbsent)>>, 0, Found(Hs))}

InputLines == {<<>>, G1, <<" ">> \o G2 \o <<" ">>}

InitBatch ==
    /\ server = NoServer /\ fetch = NoFetch /\ labels = <<>> /\ sorted = NoSort
    /\ result = NoResult
    /\ include_unplaced \in BOOLEAN
    /\ exclude_columns \in {{}, {"RefSeq"}}
    /\ file0 \in PriorFiles
    /\ file = file0
    /\ input_lines \in ListsUpTo(InputLines, MaxLines)
    /\ idx = 0
    /\ log = <<>>
    /\ pc = "start"

\* Lines 167-171: the output file is truncated, the list is read.
BatchOpen ==
    /\ pc = "start"
    /\ file' = Truncated
    /\ pc' = "loop"
    /\ UNCHANGED <<server, fetch, include_unplaced, exclude_columns, file0, result,
                   input_lines, idx, log, labels, sorted>>

\* Lines 173-176 for the next genome_id, whose requests srv answers.  An
\* exception leaving fetch_chromosome_table ends the process.
ProcessGenome ==
    /\ pc = "loop"
    /\ idx < Len(GenomeIds(input_lines))
    /\ \E srv \in BatchServers :
         \E res \in {fetch_chromosome_table(GenomeIds(input_lines)[idx + 1],
                                            include_unplaced, exclude_columns, srv)} :
            /\ log' = Append(log, [genome_id |-> GenomeIds(input_lines)[idx + 1],
                                   server |-> srv, result |-> res,
                                   exported |-> res.status = "returned"])
            /\ idx' = idx + 1
            /\ IF res.status = "raised"
               THEN pc' = "crashed" /\ file' = file
               ELSE pc' = pc /\ file' = export_to_csv(res.rows, file)
    /\ UNCHANGED <<server, fetch, include_unplaced, exclude_columns, file0, result,
                   input_lines, labels, sorted>>

\* Line 178.
BatchDone ==
    /\ pc = "loop"
    /\ idx = Len(GenomeIds(input_lines))
    /\ pc' = "done"
    /\ UNCHANGED <<server, fetch, include_unplaced, exclude_columns, file0, result,
                   input_lines, idx, file, log, labels, sorted>>

NextBatch == BatchOpen \/ ProcessGenome \/ BatchDone
SpecBatch == InitBatch /\ [][NextBatch]_vars

InitSingle ==
    /\ fetch = NoFetch /\ labels = <<>> /\ sorted = NoSort
    /\ input_lines = <<>> /\ idx = 0 /\ log = <<>>
    /\ include_unplaced \in BOOLEAN
    /\ exclude_columns \in {{}, {"RefSeq"}, {"Chromosome"}}
    /\ server \in BatchServers
    /\ file0 \in PriorFiles
    /\ file = file0
    /\ result = NoResult
    /\ pc = "start"

\* Lines 254-267 of main.
RunSingle ==
    /\ pc = "start"
    /\ \E res \in {fetch_chromosome_table(G1, include_unplaced, exclude_columns, server)} :
         /\ result' = res
         /\ IF res.status = "raised"
            THEN pc' = "crashed" /\ file' = file
            ELSE pc' = "done" /\ file' = SingleModeFile(res.rows, file)
    /\ UNCHANGED <<server, fetch, include_unplaced, exclude_columns, file0, input_lines,
                   idx, log, labels, sorted>>

NextSingle == RunSingle
SpecSingle == InitSingle /\ [][NextSingle]_vars

(***************************************************************************)
(* The key and the order as the specification words them                   *)
(***************************************************************************)
\* Strip a leading "chr" or "Chr", then upper case.
StripPrefix(label) ==
    Upper(IF StartsWith(label, chr) \/ StartsWith(label, Chr)
          THEN SubSeq(label, 4, Len(label)) ELSE label)

Mito == {<<"M", "T">>, <<"M">>, <<"M", "I", "T", "O">>,
         <<"M", "I", "T", "O", "C", "H", "O", "N", "D", "R", "I", "O", "N">>}

SpecifiedKey(label) ==
    LET s == StripPrefix(label) IN
    IF s = <<"X">> THEN Key(0, JInt(1000), JStr(<<>>))
    ELSE IF s = <<"Y">> THEN Key(0, JInt(1001), JStr(<<>>))
    ELSE IF s \in Mito THEN Key(0, JInt(1002), JStr(<<>>))
    ELSE IF AllDigits(s) THEN Key(0, JInt(DecimalValue(s)), JStr(<<>>))
    ELSE IF ReMatches(s) THEN Key(1, JStr(RePrefix(s)), JInt(DecimalValue(ReNum(s))))
    ELSE Key(2, JStr(s), JInt(0))

\* C10: for every label, sort_key returns the key of the specified algorithm,
\* which removes only a leading "chr"/"Chr" and keeps every other occurrence.
C10_SortKeyIsSpecifiedKey ==
    pc = "keyed" => /\ result.err = "none"
                    /\ result.key = SpecifiedKey(labels[1])

\* The order of the claims, read off the labels.
IsSpecialName(n) == n \in {<<"X">>, <<"Y">>} \cup Mito
TierOfName(n) ==
    IF IsSpecialName(n) \/ AllDigits(n) THEN 0 ELSE IF ReMatches(n) THEN 1 ELSE 2
Tier0Value(n) ==
    IF n = <<"X">> THEN 1000 ELSE IF n = <<"Y">> THEN 1001
    ELSE IF n \in Mito THEN 1002 ELSE DecimalValue(n)
\* Name na may stand before name nb.
NameMayPrecede(na, nb) ==
    \/ TierOfName(na) < TierOfName(nb)
    \/ /\ TierOfName(na) = TierOfName(nb)
       /\ TierOfName(na) = 0 => Tier0Value(na) <= Tier0Value(nb)
       /\ TierOfName(na) = 1 =>
            \/ StrLess(RePrefix(na), RePrefix(nb))
            \/ /\ RePrefix(na) = RePrefix(nb)
               /\ DecimalValue(ReNum(na)) <= DecimalValue(ReNum(nb))
       /\ TierOfName(na) = 2 => ~StrLess(nb, na)
NamesTied(na, nb) == NameMayPrecede(na, nb) /\ NameMayPrecede(nb, na)

\* The classes of claim C8, in its order: plain integers, X, Y, the
\* mitochondrial labels, letters+digits, the rest.
ClaimClass(n) ==
    IF AllDigits(n) THEN 1 ELSE IF n = <<"X">> THEN 2 ELSE IF n = <<"Y">> THEN 3
    ELSE IF n \in Mito THEN 4 ELSE IF ReMatches(n) THEN 5 ELSE 6
ClaimMayPrecede(na, nb) ==
    \/ ClaimClass(na) < ClaimClass(nb)
    \/ /\ ClaimClass(na) = ClaimClass(nb)
       /\ ClaimClass(na) = 1 => DecimalValue(na) <= DecimalValue(nb)
       /\ ClaimClass(na) = 5 =>
            \/ StrLess(RePrefix(na), RePrefix(nb))
            \/ /\ RePrefix(na) = RePrefix(nb)
               /\ DecimalValue(ReNum(na)) <= DecimalValue(ReNum(nb))
       /\ ClaimClass(na) = 6 => ~StrLess(nb, na)

SortedLabels == LabelsOf(sorted.rows)
IsPermutation(rows, of) ==
    /\ Len(rows) = Len(of)
    /\ {rows[i] : i \in 1..Len(rows)} = {of[i] : i \in 1..Len(of)}
ExamplesHold ==
    /\ labels = Example1 => SortedLabels = Expected1
    /\ labels = Example2 => SortedLabels = Expected2

\* C8 (as stated): the sorted output holds the plain integers first, in
\* ascending order, then X, then Y, then the mitochondrial labels, then the
\* letters+digits labels by prefix and number, then the rest lexically: the
\* special chromosomes after every numeric one, whatever its number.
C8_SpecialsAfterEveryNumeric ==
    pc = "sorted" =>
        \A names \in {[i \in 1..Len(sorted.rows) |-> Normalize(SortedLabels[i])]} :
        /\ sorted.err = "none"
        /\ IsPermutation(sorted.rows, SortTable(labels))
        /\ \A i, j \in 1..Len(sorted.rows) :
             i < j => ClaimMayPrecede(names[i], names[j])
        /\ ExamplesHold

\* C8 (amended): the sorted output is the input rows ordered by tier, where a
\* label is named by what is left of it once every "chr" and "Chr" is removed
\* and the rest upper-cased: tier 0 ascending by number, X counting as 1000, Y
\* as 1001 and the mitochondrial names as 1002 (so the special chromosomes
\* follow every number below 1000, and tie with or precede a number from 1000
\* on), then letters+digits by prefix and number, then the rest lexically;
\* rows that tie keep their input order; the two examples sort as stated.
C8_SortedByTierAndRank ==
    pc = "sorted" =>
        \A names \in {[i \in 1..Len(sorted.rows) |-> Normalize(SortedLabels[i])]} :
        /\ sorted.err = "none"
        /\ IsPermutation(sorted.rows, SortTable(labels))
        /\ \A i, j \in 1..Len(sorted.rows) :
             i < j =>
               /\ NameMayPrecede(names[i], names[j])
               /\ NamesTied(names[i], names[j])
                    => sorted.rows[i]["Size (bp)"].n < sorted.rows[j]["Size (bp)"].n
               /\ (IsSpecialName(names[i]) /\ AllDigits(names[j]))
                    => DecimalValue(names[j]) >= 1000
        /\ ExamplesHold

\* A sorted table that holds a special chromosome, a number from 1000 on and a
\* letters+digits label.
C8_Witness ==
    /\ pc = "sorted"
    /\ sorted.err = "none"
    /\ {L_chrX, L_1000, L_KI3} \subseteq {SortedLabels[i] : i \in 1..Len(sorted.rows)}

KeyOfLabel(l) == sort_key(SortRow(l, 1)).key

\* C9 (as stated): any two labels have comparable keys, and the keys are equal
\* only when the two labels are identical.
C9_DistinctLabelsNeverTie ==
    pc = "sorted" =>
        \A keys \in {[i \in 1..Len(labels) |-> KeyOfLabel(labels[i])]} :
        \A i, j \in 1..Len(labels) :
            /\ KeyCmp(keys[i], keys[j]) # "TypeError"
            /\ KeyCmp(keys[i], keys[j]) = "eq" => labels[i] = labels[j]

\* C9 (amended): any two labels have comparable keys (no comparison meets a
\* str and an int), the comparison is antisymmetric, identical labels have
\* equal keys, and two keys are equal only when the labels name the same tier
\* and the same number, rank, prefix and number, or name: distinct labels may
\* tie (chr1 and 1, M and chrMT, 1000 and chrX).
C9_KeysComparable ==
    pc = "sorted" =>
        \A keys \in {[i \in 1..Len(labels) |-> KeyOfLabel(labels[i])]} :
        \A names \in {[i \in 1..Len(labels) |-> Normalize(labels[i])]} :
        \A i, j \in 1..Len(labels) :
            \A c \in {KeyCmp(keys[i], keys[j])} :
                /\ c # "TypeError"
                /\ c = "lt" <=> KeyCmp(keys[j], keys[i]) = "gt"
                /\ labels[i] = labels[j] => c = "eq"
                /\ c = "eq" => NamesTied(names[i], names[j])

\* A number and a letters+digits label were compared, and two distinct labels tied.
C9_Witness ==
    /\ pc = "sorted"
    /\ sorted.err = "none"
    /\ \E i, j \in 1..Len(labels) : labels[i] = L_1000 /\ labels[j] = L_KI3
    /\ \E i, j \in 1..Len(labels) :
          /\ labels[i] # labels[j]
          /\ KeyCmp(KeyOfLabel(labels[i]), KeyOfLabel(labels[j])) = "eq"

(***************************************************************************)
(* Claims about fetch_all_sequence_reports (SpecFetch)                     *)
(***************************************************************************)
\* The k-th request ends the pagination: it fails, or its page has no token.
RequestIsLast(srv, k) ==
    \/ k = srv.fail_at
    \/ k > Len(srv.pages)
    \/ srv.pages[k].next_page_token = JAbsent
LastRequest(srv) ==
    CHOOSE k \in 1..(Len(srv.pages) + 1) :
        RequestIsLast(srv, k) /\ \A j \in 1..(k - 1) : ~RequestIsLast(srv, j)
LastFailed(srv) == LastRequest(srv) = srv.fail_at \/ LastRequest(srv) > Len(srv.pages)
PagesReceived(srv) == IF LastFailed(srv) THEN LastRequest(srv) - 1 ELSE LastRequest(srv)

RECURSIVE ConcatReports(_, _)
ConcatReports(pages, m) ==
    IF m = 0 THEN <<>>
    ELSE ConcatReports(pages, m - 1) \o (IF pages[m].has_reports THEN pages[m].reports ELSE <<>>)

\* C5: fetch_all_sequence_reports returns the reports of the pages received
\* before the first failed request, or up to the first page without a token,
\* concatenated in arrival order; every page is requested once, the first
\* request without page_token and each later one with the token of the
\* response before; a failed request ends the loop with what was accumulated.
C5_ReturnsPagesInOrder ==
    /\ Len(fetch.requests) <= LastRequest(server)
    /\ fetch.reports = ConcatReports(server.pages,
                          IF fetch.state = "returned" THEN PagesReceived(server)
                          ELSE Len(fetch.requests))
    /\ \A k \in 1..Len(fetch.requests) :
          fetch.requests[k] = IF k = 1 THEN JAbsent ELSE server.pages[k - 1].next_page_token
    /\ fetch.state = "returned" => Len(fetch.requests) = LastRequest(server)

\* The second request failed and the reports of the first page were returned.
C5_Witness ==
    /\ fetch.state = "returned"
    /\ server.fail_at = 2
    /\ Len(server.pages) >= 2
    /\ Len(fetch.requests) = 2
    /\ fetch.reports = server.pages[1].reports
    /\ fetch.reports # <<>>

(***************************************************************************)
(* Claims about fetch_chromosome_table (SpecMap)                           *)
(***************************************************************************)
ReportsOf(srv) == fetch_all_sequence_reports(srv)

\* The inclusion rule of claim C2 for one report.
ClaimLabel(seq) ==
    IF seq.chr_name # JAbsent THEN seq.chr_name
    ELSE IF seq.assigned_molecule # JAbsent THEN seq.assigned_molecule
    ELSE JStr(N_A)
ClaimKeeps(seq, incl) ==
    /\ seq.mapping
    /\ seq.loc = "Chromosome" \/ (incl /\ seq.role = "assembled-molecule")
    /\ ~(~incl /\ ClaimLabel(seq) = JStr(Un))
KeptReports(reports, incl) == SelectSeq(reports, LAMBDA seq : ClaimKeeps(seq, incl))

Count(seq, v) == Cardinality({i \in 1..Len(seq) : seq[i] = v})
\* rows holds one row for every report of kept: as many rows, and (when the
\* Chromosome column is there) every label as often.
OneRowPerReport(rows, kept) ==
    /\ Len(rows) = Len(kept)
    /\ \A i \in 1..Len(kept) :
          \A r \in 1..Len(rows) :
             "Chromosome" \in DOMAIN rows[r] =>
                Count([k \in 1..Len(kept) |-> ClaimLabel(kept[k])], ClaimLabel(kept[i]))
                   = Count([k \in 1..Len(rows) |-> rows[k]["Chromosome"]], ClaimLabel(kept[i]))

\* C1: with exclude_columns = E the rows are those returned with no exclusion,
\* in the same order, each without exactly the fields of E.  Read of the
\* well-formed reports.
C1_ExclusionOnlyRemovesColumns ==
    (pc = "called" /\ \A i \in 1..Len(ReportsOf(server)) : ReportsOf(server)[i] \in WellFormed) =>
        \A base \in {fetch_chromosome_table(G1, include_unplaced, {}, server)} :
            /\ result.status = base.status
            /\ Len(result.rows) = Len(base.rows)
            /\ \A i \in 1..Len(base.rows) :
                  result.rows[i] = Project(base.rows[i], exclude_columns)

\* C2 (as stated): a report produces an output row if and only if the
\* inclusion rule keeps it.  Read of the calls that exclude no column and
\* return.
C2_RowIffRuleKeeps ==
    (pc = "called" /\ exclude_columns = {} /\ result.status = "returned") =>
        OneRowPerReport(result.rows, KeptReports(ReportsOf(server), include_unplaced))

\* C2 (amended): a report produces an output row if and only if the inclusion
\* rule keeps it and no exception was raised while the reports of its assembly
\* were mapped and sorted; when one was raised no report produces a row.  No
\* row has the label "Un" when include_unplaced is false.
C2_RowIffRuleKeepsAndNoError ==
    pc = "called" =>
        /\ IF result.status = "returned" /\ result.err = "none"
           THEN OneRowPerReport(result.rows, KeptReports(ReportsOf(server), include_unplaced))
           ELSE result.rows = <<>>
        /\ \A r \in 1..Len(result.rows) :
              (~include_unplaced /\ "Chromosome" \in DOMAIN result.rows[r])
                 => result.rows[r]["Chromosome"] # JStr(Un)

\* Of two reports one was dropped and one produced the only row.
C2_Witness ==
    /\ pc = "called"
    /\ ~include_unplaced
    /\ ReportsOf(server) = <<R_asm1, R_X>>
    /\ Len(result.rows) = 1
    /\ exclude_columns = {}
    /\ result.rows[1]["Chromosome"] = JStr(L_chrX)

(***************************************************************************)
(* Claims about process_genome_list (SpecBatch)                            *)
(***************************************************************************)
\* Mapping or sorting the reports of log entry e raised an exception.
MappingFailed(e) ==
    /\ ReportsOf(e.server) # <<>>
    /\ MapAndSort(ReportsOf(e.server), e.genome_id, OrganismName(e.server),
                  include_unplaced, exclude_columns).err # "none"

\* C3: every assembly ID of the list is fetched, mapped and handed to the
\* writer, in list order, whatever failed for an earlier ID; no transport or
\* shape failure ends the run, the failing assembly yields an empty row set.
C3_EveryIdReachesTheWriter ==
    /\ pc # "crashed"
    /\ \A i \in 1..Len(log) :
          /\ log[i].genome_id = GenomeIds(input_lines)[i]
          /\ log[i].exported
          /\ MappingFailed(log[i]) => log[i].result.rows = <<>>
    /\ pc = "done" => Len(log) = Len(GenomeIds(input_lines))

\* C4: for every assembly the rows written are one per kept report or none;
\* when mapping or sorting fails, fetch_chromosome_table returns an empty row
\* list with the organism name already resolved.
C4_AllOrNothingAndReturns ==
    \A i \in 1..Len(log) :
        /\ \/ log[i].result.rows = <<>>
           \/ OneRowPerReport(log[i].result.rows,
                              KeptReports(ReportsOf(log[i].server), include_unplaced))
        /\ MappingFailed(log[i]) =>
              /\ log[i].result.status = "returned"
              /\ log[i].result.rows = <<>>
              /\ log[i].result.organism_name = OrganismName(log[i].server)

\* The header and the data lines the claims expect in the file.
ExpectedHeaders == SelectSeq(Columns, LAMBDA c : c \notin exclude_columns)
RECURSIVE YieldedLines(_)
YieldedLines(entries) ==
    IF entries = <<>> THEN <<>>
    ELSE YieldedLines(SubSeq(entries, 1, Len(entries) - 1))
            \o RowLines(ExpectedHeaders, entries[Len(entries)].result.rows)
RowsInOrder(rows) ==
    \A k \in 1..(Len(rows) - 1) :
        NameMayPrecede(Normalize(rows[k]["Chromosome"].s), Normalize(rows[k + 1]["Chromosome"].s))

\* C6: once the batch has opened the output file, whatever the file held
\* before, it holds one header row, first, when an assembly processed so far
\* yielded rows, then the rows of the assemblies in list order, each
\* assembly's rows together and sorted; an empty row set adds nothing and no
\* second header is written.
C6_OneHeaderThenRowsInListOrder ==
    pc # "start" =>
        /\ file.exists
        /\ file.lines = IF YieldedLines(log) = <<>> THEN <<>>
                        ELSE <<HeaderLine(ExpectedHeaders)>> \o YieldedLines(log)
        /\ Count(file.lines, HeaderLine(ExpectedHeaders)) <= 1
        /\ \A i \in 1..Len(log) : RowsInOrder(log[i].result.rows)

\* A finished batch of two assemblies that both yielded rows, the second one
\* two, into a file that held old lines.
C6_Witness ==
    /\ pc = "done"
    /\ file0.lines # <<>>
    /\ Len(log) = 2
    /\ log[1].result.rows # <<>>
    /\ Len(log[2].result.rows) = 2
    /\ Len(file.lines) = 1 + Len(log[1].result.rows) + 2

(***************************************************************************)
(* Claims about the single-assembly mode of main (SpecSingle)              *)
(***************************************************************************)
\* C7 (as stated): after a single-assembly run the file holds only what the
\* run produced, and nothing it held before, whatever the fetch yielded.  Read
\* of the runs in which no exception was raised.
C7_FreshFileAfterEveryRun ==
    (pc = "done" /\ result.err = "none") =>
        /\ file.lines = IF result.rows = <<>> THEN <<>>
                        ELSE <<HeaderLine(ExpectedHeaders)>>
                                \o RowLines(ExpectedHeaders, result.rows)

\* C7 (amended): after a single-assembly run that yields at least one row the
\* file holds one header row and the rows of this assembly, and nothing it
\* held before; a run that yields no row (no reports, a failed request, a
\* mapping error, an exception) leaves the file as it was, neither created
\* nor truncated.
C7_FreshFileWhenRowsElseUntouched ==
    pc \in {"done", "crashed"} =>
        IF result.rows # <<>>
        THEN /\ file.exists
             /\ file.lines = <<HeaderLine(ExpectedHeaders)>>
                                \o RowLines(ExpectedHeaders, result.rows)
        ELSE file = file0

\* A run that yielded rows into a file that held old lines.
C7_Witness ==
    /\ pc = "done"
    /\ file0.lines = OldLines
    /\ Len(result.rows) = 2
    /\ Len(file.lines) = 3

====
